---- MODULE Spec2Model ----
(***************************************************************************)
(* Food Delivery API (src/main.py, src/schemas.py).                        *)
(*                                                                         *)
(* The document store holds three collections, restaurant, menuitem and    *)
(* order, each a sequence of documents in insertion order.  ObjectIds are  *)
(* modelled as positive integers handed out by a counter.  An identifier   *)
(* STRING is a record [oid, form]: the canonical lower-case hex string     *)
(* that str(ObjectId) produces, an upper-case spelling of the same id      *)
(* (ObjectId() accepts it, str() never produces it), or a malformed        *)
(* string.  Money is fixed-point, in thousandths of a dollar, so that a    *)
(* price may carry more than two decimal places; round(x, 2) rounds to a   *)
(* multiple of 10 thousandths.  The uninterpreted text fields of a record  *)
(* (descriptions, image urls, customer name and address) are left out.     *)
(***************************************************************************)
EXTENDS Integers, Sequences, FiniteSets, TLC

VARIABLES restaurant, menuitem, order, nextId, req, resp, seedw, ordw

vars == <<restaurant, menuitem, order, nextId, req, resp, seedw, ordw>>
store == <<restaurant, menuitem, order, nextId>>

\* ---- bounds -------------------------------------------------------------
MaxOrders == 2      \* POST /orders is accepted while fewer orders are stored
MaxItems == 2       \* longest item list of a payload
MaxLimit == 2       \* GET /orders is called with limit in 1..MaxLimit
MaxStep == 5        \* arbitrary prices and fees are 0, 0.002, ..., MaxStep * 0.002

\* the concurrent POST /seed requests
Seeders == {"s1", "s2"}

\* ---- identifiers --------------------------------------------------------
Lower(oid) == [oid |-> oid, form |-> "lower"]
Upper(oid) == [oid |-> oid, form |-> "upper"]
Malformed == [oid |-> 0, form |-> "bad"]
\* a well-formed id string that no document carries (the counter starts at 1)
AbsentId == Lower(0)

\* ObjectId(id_str) succeeds: a 24-digit hex string in either case
IsObjectId(id_str) == id_str.form # "bad"

\* to_obj_id: the ObjectId of a well-formed string (HTTP 400 otherwise,
\* which every caller below tests with IsObjectId first)
to_obj_id(id_str) == id_str.oid

\* str(ObjectId): always the canonical spelling
StrOfId(oid) == Lower(oid)

\* ---- data access --------------------------------------------------------
\* create_document: the record gets the next identifier and goes last
create_document(coll, data, id) == Append(coll, data @@ [_id |-> id])

Min(a, b) == IF a < b THEN a ELSE b

\* get_documents: up to `limit` records in insertion order
get_documents(coll, limit) == SubSeq(coll, 1, Min(limit, Len(coll)))

\* find({"_id": {"$in": oids}}): the documents whose _id is one of oids
FindIn(coll, oids) == SelectSeq(coll, LAMBDA d : d._id \in oids)

\* a lookup that takes whatever document comes first
find_one_any(coll, oid) == IF Len(coll) = 0 THEN {} ELSE {coll[1]}

\* find_one({"_id": oid}): the set holding the first match, or {}
find_one(coll, oid) ==
    LET hits == SelectSeq(coll, LAMBDA d : d._id = oid)
    IN IF Len(hits) = 0 THEN {} ELSE {hits[1]}

\* serialize: the _id field becomes the string field id; an empty record
\* is returned as it is
serialize(doc) ==
    IF DOMAIN doc = {} THEN doc
    ELSE [f \in (DOMAIN doc \ {"_id"}) \cup {"id"} |->
            IF f = "id" THEN StrOfId(doc._id) ELSE doc[f]]

SerializeAll(docs) == [i \in 1..Len(docs) |-> serialize(docs[i])]

\* round(x, 2) on thousandths: the nearest multiple of 10, a tie going to
\* the even one as Python rounds an exact tie (no amount below is a tie)
Round2(x) ==
    LET q == x \div 10
        r == x % 10
    IN 10 * (IF r > 5 \/ (r = 5 /\ q % 2 = 1) THEN q + 1 ELSE q)

\* ---- requests and responses ---------------------------------------------
NoReq == [route |-> "none"]
NoResp == [status |-> 0]
Idle == req.route = "none"

NoEmail == "None"
\* Order.customer_email is Optional[EmailStr]
EmailStrOk(e) == e \in {NoEmail, "ann@example.com"}

\* ---- POST /orders: the computation --------------------------------------
Range(f) == {f[i] : i \in DOMAIN f}

\* main.py:141: the referenced menu items, keyed by str(_id)
MenuDocs(menu, items) ==
    LET oids == {to_obj_id(items[i].menu_item_id) : i \in 1..Len(items)}
        docs == Range(FindIn(menu, oids))
    IN [k \in {StrOfId(d._id) : d \in docs} |->
            CHOOSE d \in docs : StrOfId(d._id) = k]

\* the check of line 142 left out
NoneResolvedUnchecked(menu_docs) == FALSE

\* main.py:142: not menu_docs
NoneResolved(menu_docs) == DOMAIN menu_docs = {}

\* only the check of line 142: some item of the payload resolved
ItemFoundCoarse(menu_docs, it) == DOMAIN menu_docs # {}

\* a lookup by ObjectId, whatever the spelling of the submitted string
ItemFoundAnyCase(menu_docs, it) ==
    StrOfId(to_obj_id(it.menu_item_id)) \in DOMAIN menu_docs

\* menu_docs.get(it.menu_item_id) is a document: the key is the raw string
ItemFound(menu_docs, it) == it.menu_item_id \in DOMAIN menu_docs

\* float(doc.get("price", 0)) * it.quantity
LineAmount(menu_docs, it) ==
    IF it.menu_item_id \in DOMAIN menu_docs
    THEN menu_docs[it.menu_item_id].price * it.quantity
    ELSE 0

RECURSIVE Accumulate(_, _)
Accumulate(menu_docs, items) ==
    IF items = << >> THEN 0
    ELSE LineAmount(menu_docs, Head(items)) + Accumulate(menu_docs, Tail(items))

Failure(status, detail) == [status |-> status, detail |-> detail]

\* main.py:141-150: status 0 means the loop ran to its end
ItemsPhase(p, menu) ==
    IF \E i \in 1..Len(p.items) : ~IsObjectId(p.items[i].menu_item_id)
    THEN Failure(400, "Invalid id")
    ELSE LET menu_docs == MenuDocs(menu, p.items)
         IN IF NoneResolved(menu_docs)
            THEN Failure(400, "Invalid items")
            ELSE IF \E i \in 1..Len(p.items) : ~ItemFound(menu_docs, p.items[i])
            THEN Failure(400, "Menu item not found")
            ELSE [status |-> 0, subtotal |-> Accumulate(menu_docs, p.items)]

\* the total taken from the subtotal as it is stored
OrderTotalOfRounded(subtotal, delivery_fee) ==
    Round2(Round2(subtotal) + delivery_fee)

\* main.py:157
OrderTotal(subtotal, delivery_fee) == Round2(subtotal + delivery_fee)

\* an Order that starts its life confirmed
OrderDocConfirmed(p, subtotal, delivery_fee) ==
    [restaurant_id |-> p.restaurant_id,
     customer_email |-> p.customer_email,
     items |-> p.items,
     subtotal |-> Round2(subtotal),
     delivery_fee |-> delivery_fee,
     total |-> Round2(subtotal + delivery_fee),
     status |-> "confirmed"]

\* main.py:159-169: the fields of the Order record
OrderDoc(p, subtotal, delivery_fee) ==
    [restaurant_id |-> p.restaurant_id,
     customer_email |-> p.customer_email,
     items |-> p.items,
     subtotal |-> Round2(subtotal),
     delivery_fee |-> delivery_fee,
     total |-> OrderTotal(subtotal, delivery_fee),
     status |-> "pending"]

\* main.py:152-169: the restaurant lookup and the construction of the Order
RestaurantPhase(p, rests, subtotal) ==
    IF ~IsObjectId(p.restaurant_id) THEN Failure(400, "Invalid id")
    ELSE LET rest == find_one(rests, to_obj_id(p.restaurant_id))
         IN IF rest = {} THEN Failure(404, "Restaurant not found")
            ELSE IF ~EmailStrOk(p.customer_email)
            THEN Failure(500, "ValidationError")
            ELSE [status |-> 200,
                  doc |-> OrderDoc(p, subtotal,
                                   (CHOOSE r \in rest : TRUE).delivery_fee)]

OrderOutcome(p, menu, rests) ==
    LET a == ItemsPhase(p, menu)
    IN IF a.status # 0 THEN a ELSE RestaurantPhase(p, rests, a.subtotal)

\* main.py:170-171: the response to a persisted order
OrderCreated(id, doc) ==
    [status |-> 200,
     body |-> [id |-> StrOfId(id), status |-> "pending", total |-> doc.total]]

create_order(p) ==
    /\ Idle
    /\ req' = [route |-> "create_order", payload |-> p]
    /\ LET out == OrderOutcome(p, menuitem, restaurant)
       IN IF out.status = 200
          THEN /\ order' = create_document(order, out.doc, nextId)
               /\ nextId' = nextId + 1
               /\ resp' = OrderCreated(nextId, out.doc)
          ELSE /\ resp' = out
               /\ UNCHANGED <<order, nextId>>
    /\ UNCHANGED <<restaurant, menuitem, seedw, ordw>>

\* ---- POST /seed ---------------------------------------------------------
\* main.py:81-98: the two sample restaurants
SeedRestaurants ==
    << [name |-> "Pasta Palace", delivery_fee |-> 2990],
       [name |-> "Spice Route", delivery_fee |-> 3490] >>

\* main.py:100-103: the four sample menu items
SeedMenu(r1_id, r2_id) ==
    << [restaurant_id |-> r1_id, name |-> "Margherita Pizza", price |-> 12990],
       [restaurant_id |-> r1_id, name |-> "Fettuccine Alfredo", price |-> 14500],
       [restaurant_id |-> r2_id, name |-> "Butter Chicken", price |-> 13990],
       [restaurant_id |-> r2_id, name |-> "Paneer Tikka", price |-> 11250] >>

\* the emptiness check left out
SeedAlways(rests) == TRUE

\* main.py:80: db["restaurant"].count_documents({}) == 0
SeedNeeded(rests) == Len(rests) = 0

RECURSIVE InsertAll(_, _, _)
\* successive create_document calls, the first one getting identifier id
InsertAll(coll, docs, id) ==
    IF docs = << >> THEN coll
    ELSE InsertAll(create_document(coll, Head(docs), id), Tail(docs), id + 1)

seed_sample_data ==
    /\ Idle
    /\ req' = [route |-> "seed"]
    /\ resp' = [status |-> 200, body |-> [status |-> "ok"]]
    /\ IF SeedNeeded(restaurant)
       THEN /\ restaurant' = InsertAll(restaurant, SeedRestaurants, nextId)
            /\ menuitem' = InsertAll(menuitem,
                                     SeedMenu(StrOfId(nextId), StrOfId(nextId + 1)),
                                     nextId + 2)
            /\ nextId' = nextId + 6
       ELSE UNCHANGED <<restaurant, menuitem, nextId>>
    /\ UNCHANGED <<order, seedw, ordw>>

\* ---- the read routes ----------------------------------------------------
Answer(route, arg, status, body) ==
    /\ Idle
    /\ req' = [route |-> route, arg |-> arg]
    /\ resp' = [status |-> status, body |-> body]
    /\ UNCHANGED <<store, seedw, ordw>>

\* GET /restaurants
list_restaurants ==
    Answer("list_restaurants", 0, 200,
           SerializeAll(get_documents(restaurant, Len(restaurant))))

\* GET /restaurants/{restaurant_id}
get_restaurant(restaurant_id) ==
    IF ~IsObjectId(restaurant_id)
    THEN Answer("get_restaurant", restaurant_id, 400, "Invalid id")
    ELSE LET doc == find_one(restaurant, to_obj_id(restaurant_id))
         IN IF doc = {}
            THEN Answer("get_restaurant", restaurant_id, 404, "Restaurant not found")
            ELSE Answer("get_restaurant", restaurant_id, 200,
                        serialize(CHOOSE d \in doc : TRUE))

\* GET /restaurants/{restaurant_id}/menu: the filter compares the raw string
get_menu(restaurant_id) ==
    Answer("get_menu", restaurant_id, 200,
           SerializeAll(SelectSeq(menuitem,
                                  LAMBDA d : d.restaurant_id = restaurant_id)))

\* the limit not passed on
OrdersListedAll(limit) == SerializeAll(get_documents(order, Len(order)))

\* the body of GET /orders
OrdersListed(limit) == SerializeAll(get_documents(order, limit))

\* GET /orders
list_orders(limit) == Answer("list_orders", limit, 200, OrdersListed(limit))

\* the response leaves; the next request may come
Deliver ==
    /\ ~Idle
    /\ req' = NoReq
    /\ resp' = NoResp
    /\ UNCHANGED <<store, seedw, ordw>>

\* ---- the requests that are tried ----------------------------------------
Item(id, quantity) == [menu_item_id |-> id, quantity |-> quantity]

\* the first menu item once, the second one twice
KnownItems(menu) ==
    (IF Len(menu) >= 1 THEN {Item(StrOfId(menu[1]._id), 1)} ELSE {})
    \cup (IF Len(menu) >= 2 THEN {Item(StrOfId(menu[2]._id), 2)} ELSE {})

ItemChoices(menu) ==
    KnownItems(menu)
    \cup (IF Len(menu) >= 1 THEN {Item(Upper(menu[1]._id), 1)} ELSE {})
    \cup {Item(AbsentId, 1), Item(Malformed, 1)}

ListsOver(S) == UNION {[1..n -> S] : n \in 0..MaxItems}

KnownRestaurants(rests) ==
    IF Len(rests) >= 1 THEN {StrOfId(rests[1]._id)} ELSE {}

IdChoices(rests) == KnownRestaurants(rests) \cup {AbsentId, Malformed}

EmailChoices == {NoEmail, "not-an-email"}

Payloads ==
    [restaurant_id : IdChoices(restaurant),
     items : ListsOver(ItemChoices(menuitem)),
     customer_email : EmailChoices]

\* ---- the sequential service ---------------------------------------------
SeedWorker0 == [pc |-> "start", k |-> 0, r1 |-> AbsentId, r2 |-> AbsentId]
OrderWorker0 == [pc |-> "start"]

Init ==
    /\ restaurant = << >>
    /\ menuitem = << >>
    /\ order = << >>
    /\ nextId = 1
    /\ req = NoReq
    /\ resp = NoResp
    /\ seedw = [w \in Seeders |-> SeedWorker0]
    /\ ordw = OrderWorker0

PostOrder == \E p \in Payloads : Len(order) < MaxOrders /\ create_order(p)
GetRestaurant == \E id \in IdChoices(restaurant) : get_restaurant(id)
GetMenu == \E id \in IdChoices(restaurant) : get_menu(id)
GetOrders == \E limit \in 1..MaxLimit : list_orders(limit)

Next ==
    \/ seed_sample_data
    \/ PostOrder
    \/ list_restaurants
    \/ GetRestaurant
    \/ GetMenu
    \/ GetOrders
    \/ Deliver

Spec == Init /\ [][Next]_vars

\* ---- orders over arbitrary prices ---------------------------------------
\* A store as create_document leaves it after one Restaurant and two
\* MenuItems that satisfy schemas.py: delivery_fee >= 0, price >= 0.
\* The amounts are the even numbers of thousandths: they carry a third
\* decimal, and no sum of them lies halfway between two cents, where the
\* result of round() on a binary float depends on its representation.
Amounts == {2 * k : k \in 0..MaxStep}

InitPrices ==
    /\ \E fee \in Amounts :
          restaurant = InsertAll(<< >>, << [name |-> "R", delivery_fee |-> fee] >>, 1)
    /\ \E p1 \in Amounts, p2 \in Amounts :
          menuitem = InsertAll(<< >>,
                               << [restaurant_id |-> StrOfId(1), name |-> "A", price |-> p1],
                                  [restaurant_id |-> StrOfId(1), name |-> "B", price |-> p2] >>,
                               2)
    /\ order = << >>
    /\ nextId = 4
    /\ req = NoReq
    /\ resp = NoResp
    /\ seedw = [w \in Seeders |-> SeedWorker0]
    /\ ordw = OrderWorker0

PricedPayloads ==
    [restaurant_id : KnownRestaurants(restaurant),
     items : ListsOver(KnownItems(menuitem)),
     customer_email : {NoEmail}]

\* one request against each such store: create_order never reads the orders
PostPricedOrder ==
    \E p \in PricedPayloads : order = << >> /\ create_order(p)

NextPrices == PostPricedOrder \/ Deliver

SpecPrices == InitPrices /\ [][NextPrices]_vars

\* ---- concurrent requests ------------------------------------------------
\* Each store operation of a handler is a step of its own; the handlers
\* take no lock.  Every seed worker serves one POST /seed; the order worker
\* serves one POST /orders after another.

\* main.py:80
SeedCheck(w) ==
    /\ seedw[w].pc = "start"
    /\ seedw' = [seedw EXCEPT ![w].pc =
                    IF SeedNeeded(restaurant) THEN "insert" ELSE "done",
                              ![w].k = 1]
    /\ UNCHANGED <<store, req, resp, ordw>>

\* main.py:81-103: the k-th of the six create_document calls
SeedInsert(w) ==
    LET k == seedw[w].k
        menu == SeedMenu(seedw[w].r1, seedw[w].r2)
    IN /\ seedw[w].pc = "insert"
       /\ IF k <= 2
          THEN /\ restaurant' = create_document(restaurant, SeedRestaurants[k], nextId)
               /\ UNCHANGED menuitem
          ELSE /\ menuitem' = create_document(menuitem, menu[k - 2], nextId)
               /\ UNCHANGED restaurant
       /\ nextId' = nextId + 1
       /\ seedw' = [seedw EXCEPT
                       ![w].k = k + 1,
                       ![w].pc = IF k = 6 THEN "done" ELSE "insert",
                       ![w].r1 = IF k = 1 THEN StrOfId(nextId) ELSE @,
                       ![w].r2 = IF k = 2 THEN StrOfId(nextId) ELSE @]
       /\ UNCHANGED <<order, req, resp, ordw>>

\* the first menu item, twice
FirstItem(menu) ==
    IF Len(menu) >= 1 THEN {Item(StrOfId(menu[1]._id), 2)} ELSE {}

ConcPayloads ==
    [restaurant_id : KnownRestaurants(restaurant) \cup {AbsentId},
     items : {<< >>} \cup {<<i>> : i \in FirstItem(menuitem)},
     customer_email : {NoEmail}]

\* main.py:141-150: the menu items are read and the subtotal accumulated
OrderItems(p) ==
    /\ ordw.pc = "start"
    /\ LET a == ItemsPhase(p, menuitem)
       IN ordw' = IF a.status # 0 THEN OrderWorker0
                  ELSE [pc |-> "lookup", p |-> p, subtotal |-> a.subtotal]
    /\ UNCHANGED <<store, req, resp, seedw>>

\* main.py:152-169: the restaurant is read and the Order built
OrderLookup ==
    /\ ordw.pc = "lookup"
    /\ LET b == RestaurantPhase(ordw.p, restaurant, ordw.subtotal)
       IN ordw' = IF b.status # 200 THEN OrderWorker0
                  ELSE [pc |-> "insert", doc |-> b.doc]
    /\ UNCHANGED <<store, req, resp, seedw>>

\* main.py:170
OrderInsert ==
    /\ ordw.pc = "insert"
    /\ order' = create_document(order, ordw.doc, nextId)
    /\ nextId' = nextId + 1
    /\ ordw' = OrderWorker0
    /\ UNCHANGED <<restaurant, menuitem, req, resp, seedw>>

SeedChecks == \E w \in Seeders : SeedCheck(w)
SeedInserts == \E w \in Seeders : SeedInsert(w)
OrderBegins == \E p \in ConcPayloads : Len(order) < MaxOrders /\ OrderItems(p)

NextConc ==
    \/ SeedChecks
    \/ SeedInserts
    \/ OrderBegins
    \/ OrderLookup
    \/ OrderInsert

SpecConc == Init /\ [][NextConc]_vars

\* ---- properties ---------------------------------------------------------
\* the canonical identifier strings of the stored menu items
MenuIdStrings == {StrOfId(menuitem[j]._id) : j \in 1..Len(menuitem)}

\* the price of the stored menu item that a canonical identifier names
PriceAt(id) == (CHOOSE m \in Range(menuitem) : StrOfId(m._id) = id).price

RECURSIVE SumOfLines(_)
\* the sum of price * quantity over an item list, unrounded
SumOfLines(items) ==
    IF items = << >> THEN 0
    ELSE PriceAt(Head(items).menu_item_id) * Head(items).quantity
         + SumOfLines(Tail(items))

\* an id string that parses and is the _id of a stored menu item
Resolves(id) ==
    IsObjectId(id) /\ \E j \in 1..Len(menuitem) : menuitem[j]._id = id.oid

\* an id string that parses and is the _id of no stored menu item
Dangling(id) ==
    IsObjectId(id) /\ \A j \in 1..Len(menuitem) : menuitem[j]._id # id.oid

\* an id string that parses and is the _id of no stored restaurant
RestaurantAbsent(id) ==
    IsObjectId(id) /\ \A j \in 1..Len(restaurant) : restaurant[j]._id # id.oid

RestaurantKnown(id) ==
    IsObjectId(id) /\ \E j \in 1..Len(restaurant) : restaurant[j]._id = id.oid

OrderRequest == req.route = "create_order"

\* C1 as stated: in every persisted order, total = round(subtotal +
\* delivery_fee, 2) over the STORED subtotal and fee, and subtotal =
\* round(sum of price * quantity, 2).
C1_TotalOfStoredFields ==
    \A i \in 1..Len(order) :
        /\ order[i].total = Round2(order[i].subtotal + order[i].delivery_fee)
        /\ order[i].subtotal = Round2(SumOfLines(order[i].items))

\* C1 amended: in every persisted order, total = round(S + delivery_fee, 2)
\* and subtotal = round(S, 2), where S is the unrounded sum of price *
\* quantity over the submitted items and delivery_fee is the stored fee.
C1_TotalOfUnroundedSum ==
    \A i \in 1..Len(order) :
        /\ order[i].total =
               Round2(SumOfLines(order[i].items) + order[i].delivery_fee)
        /\ order[i].subtotal = Round2(SumOfLines(order[i].items))

\* an order of two lines whose sum has a third decimal, and whose total is
\* not the rounded sum of its stored subtotal and fee
C1_Witness ==
    \E i \in 1..Len(order) :
        /\ Len(order[i].items) = 2
        /\ SumOfLines(order[i].items) % 10 # 0
        /\ order[i].total # Round2(order[i].subtotal + order[i].delivery_fee)

\* C2: every POST /orders either succeeds and adds exactly one order, or
\* fails with 400 or 404 and leaves the three collections as they were.
C2_TwoOutcomes ==
    [][req'.route = "create_order" =>
         \/ /\ resp'.status = 200
            /\ Len(order') = Len(order) + 1
            /\ SubSeq(order', 1, Len(order)) = order
            /\ UNCHANGED <<restaurant, menuitem>>
         \/ /\ resp'.status \in {400, 404}
            /\ UNCHANGED <<restaurant, menuitem, order>>]_vars

\* C3 as stated: POST /orders with a well-formed restaurant_id that matches
\* no restaurant is answered 404, whatever the item list.
C3_NotFoundWhateverItems ==
    (OrderRequest /\ RestaurantAbsent(req.payload.restaurant_id))
        => resp.status = 404

\* every item carries the canonical identifier of a stored menu item, and
\* there is at least one item
AllItemsNamed(items) ==
    /\ Len(items) >= 1
    /\ \A k \in 1..Len(items) : items[k].menu_item_id \in MenuIdStrings

\* C3 amended: POST /orders with a well-formed restaurant_id that matches no
\* restaurant is answered 404 when the item list is non-empty and every
\* menu_item_id is the canonical identifier of a stored menu item, and 400
\* otherwise.
C3_NotFoundAfterItems ==
    (OrderRequest /\ RestaurantAbsent(req.payload.restaurant_id))
        => resp.status = (IF AllItemsNamed(req.payload.items) THEN 404 ELSE 400)

C3_Witness ==
    /\ OrderRequest
    /\ RestaurantAbsent(req.payload.restaurant_id)
    /\ Len(req.payload.items) = 2
    /\ resp.status = 404

\* C4: POST /orders with two or more items, one resolving to a stored menu
\* item and one well-formed but resolving to none, is answered 400 and the
\* order collection keeps its size.
C4_PartlyResolving ==
    [][(/\ req'.route = "create_order"
        /\ Len(req'.payload.items) >= 2
        /\ \E k \in 1..Len(req'.payload.items) :
              Resolves(req'.payload.items[k].menu_item_id)
        /\ \E k \in 1..Len(req'.payload.items) :
              Dangling(req'.payload.items[k].menu_item_id))
       => (resp'.status = 400 /\ Len(order') = Len(order))]_vars

\* the restaurant exists and the first item resolves: only the second,
\* dangling item stops the order
C4_Witness ==
    /\ OrderRequest
    /\ RestaurantKnown(req.payload.restaurant_id)
    /\ Len(req.payload.items) = 2
    /\ req.payload.items[1].menu_item_id \in MenuIdStrings
    /\ Dangling(req.payload.items[2].menu_item_id)
    /\ resp.status = 400

\* C5: POST /orders with an empty item list is answered 400, whatever the
\* restaurant_id and the store, and no order is persisted.
C5_EmptyItems ==
    [][(req'.route = "create_order" /\ req'.payload.items = << >>)
       => (resp'.status = 400 /\ order' = order)]_vars

C5_Witness ==
    /\ OrderRequest
    /\ req.payload.items = << >>
    /\ RestaurantKnown(req.payload.restaurant_id)
    /\ Len(menuitem) > 0
    /\ resp.status = 400

\* C6: every completed POST /seed leaves exactly 2 restaurants and 4 menu
\* items, no later request changes that, and a seed that finds a restaurant
\* changes nothing in the store.
C6_SeedIdempotent ==
    [][/\ req'.route = "seed" => (Len(restaurant') = 2 /\ Len(menuitem') = 4)
       /\ (Len(restaurant) = 2 /\ Len(menuitem) = 4)
            => (restaurant' = restaurant /\ menuitem' = menuitem)
       /\ (req'.route = "seed" /\ Len(restaurant) > 0) => UNCHANGED store]_vars

\* a seed answered after an order was placed, hence not the first seed
C6_Witness ==
    /\ req.route = "seed"
    /\ Len(order) > 0
    /\ Len(restaurant) = 2
    /\ Len(menuitem) = 4

\* C7: every item of every persisted order carries the identifier of a
\* stored menu item (menu items are never removed or changed, so of one that
\* existed when the order was created), and the order's subtotal is the
\* rounded sum of those menu items' prices times the quantities.
C7_ItemsResolved ==
    \A i \in 1..Len(order) :
        /\ \A k \in 1..Len(order[i].items) :
              order[i].items[k].menu_item_id \in MenuIdStrings
        /\ order[i].subtotal = Round2(SumOfLines(order[i].items))

C7_Witness ==
    \E i \in 1..Len(order) :
        /\ Len(order[i].items) = 2
        /\ order[i].items[1].menu_item_id # order[i].items[2].menu_item_id

OrdersRequest == req.route = "list_orders"

\* C8 as stated: GET /orders with limit L answers with all orders when there
\* are at most L, and otherwise with exactly the L most recently created.
C8_MostRecent ==
    OrdersRequest =>
        LET n == Len(order)
            m == Min(req.arg, n)
        IN /\ Len(resp.body) = m
           /\ {resp.body[i].id : i \in 1..Len(resp.body)}
                = {StrOfId(order[j]._id) : j \in (n - m + 1)..n}

\* C8 amended: GET /orders with limit L answers with all orders when there
\* are at most L, and otherwise with exactly the L first created ones, in
\* the order of their creation.
C8_InsertionOrder ==
    OrdersRequest =>
        LET n == Len(order)
            m == Min(req.arg, n)
        IN /\ Len(resp.body) = m
           /\ \A i \in 1..Len(resp.body) :
                 /\ resp.body[i].id = StrOfId(order[i]._id)
                 /\ resp.body[i].items = order[i].items
                 /\ resp.body[i].total = order[i].total

C8_Witness == OrdersRequest /\ Len(order) > req.arg

\* C9: whatever the interleaving of concurrent POST /seed requests, there
\* are never more than 2 restaurants nor more than 4 menu items.
C9_SeededOnce == Len(restaurant) <= 2 /\ Len(menuitem) <= 4

\* C10: under every interleaving, every stored order is pending, and a step
\* leaves the stored orders as they are or adds one order after them.
C10_PendingAndKept ==
    [][/\ \A i \in 1..Len(order') : order'[i].status = "pending"
       /\ Len(order') \in {Len(order), Len(order) + 1}
       /\ SubSeq(order', 1, Len(order)) = order]_vars

\* two orders stored while a seed is still inserting
C10_Witness ==
    /\ Len(order) >= 2
    /\ \E w \in Seeders : seedw[w].pc = "insert"

====
